---- MODULE Spec2Model ----
(***************************************************************************)
(* docsearch: the section model, the range sublanguage, docread and        *)
(* docgrep of src/docsearch/server.py.                                     *)
(*                                                                         *)
(* Python str values are sequences of one-character strings, so that       *)
(* split, strip, int(), the label regex and the output cap are computed    *)
(* on characters.                                                          *)
(***************************************************************************)
EXTENDS Integers, Sequences, FiniteSets, TLC

(***************************************************************************)
(* Python built-ins used by the program                                    *)
(***************************************************************************)

\* The characters of the model, in code-point order (str comparison).
CodePoints ==
    << "\t", "\n", " ", "\"", "'", "(", ",", "-", ".", "/",
       "0", "1", "2", "3", "4", "5", "6", "7", "8", "9", ":", "=",
       "A", "B", "D", "F", "N", "P", "U", "X",
       "a", "b", "c", "d", "e", "f", "g", "h", "i", "k", "l", "m", "n", "o",
       "p", "r", "s", "t", "u", "w", "x" >>

Ord(c) == CHOOSE i \in 1..Len(CodePoints) : CodePoints[i] = c

Digits == {"0", "1", "2", "3", "4", "5", "6", "7", "8", "9"}

DigitVal(c) == Ord(c) - Ord("0")

Whitespace == {"\t", "\n", " "}

\* str.lower() on one character
LowerChar(c) ==
    CASE c = "A" -> "a" [] c = "B" -> "b" [] c = "D" -> "d"
      [] c = "F" -> "f" [] c = "N" -> "n" [] c = "P" -> "p"
      [] c = "U" -> "u" [] c = "X" -> "x"
      [] OTHER -> c

Lower(s) == [i \in 1..Len(s) |-> LowerChar(s[i])]

SetMin(S) == CHOOSE x \in S : \A y \in S : x <= y
SetMax(S) == CHOOSE x \in S : \A y \in S : y <= x

\* sorted(S) for a set of integers
Sorted(S) ==
    [k \in 1..Cardinality(S) |->
        CHOOSE p \in S : Cardinality({q \in S : q <= p}) = k]

\* s.strip(chars)
StripChars(s, chars) ==
    IF \A i \in 1..Len(s) : s[i] \in chars THEN << >>
    ELSE LET lo == CHOOSE i \in 1..Len(s) :
                       s[i] \notin chars /\ \A j \in 1..(i - 1) : s[j] \in chars
             hi == CHOOSE i \in 1..Len(s) :
                       s[i] \notin chars /\ \A j \in (i + 1)..Len(s) : s[j] \in chars
         IN  SubSeq(s, lo, hi)

\* s.strip()
Strip(s) == StripChars(s, Whitespace)

\* s.rstrip(chars)
RStripChars(s, chars) ==
    IF \A i \in 1..Len(s) : s[i] \in chars THEN << >>
    ELSE LET hi == CHOOSE i \in 1..Len(s) :
                       s[i] \notin chars /\ \A j \in (i + 1)..Len(s) : s[j] \in chars
         IN  SubSeq(s, 1, hi)

\* c in s
HasChar(s, c) == \E i \in 1..Len(s) : s[i] = c

\* s.split(c): always at least one piece
Split(s, c) ==
    LET cuts == Sorted({i \in 1..Len(s) : s[i] = c})
        n    == Len(cuts)
        from(k) == IF k = 1 THEN 1 ELSE cuts[k - 1] + 1
        to(k)   == IF k = n + 1 THEN Len(s) ELSE cuts[k] - 1
    IN  [k \in 1..(n + 1) |-> SubSeq(s, from(k), to(k))]

\* s.split(c, 1) for s that holds c
SplitOnce(s, c) ==
    LET i == SetMin({j \in 1..Len(s) : s[j] = c})
    IN  << SubSeq(s, 1, i - 1), SubSeq(s, i + 1, Len(s)) >>

\* s.splitlines(): no piece after a final line break, none for ""
SplitLines(s) ==
    LET p == Split(s, "\n")
    IN  IF p[Len(p)] = << >> THEN SubSeq(p, 1, Len(p) - 1) ELSE p

RECURSIVE Join(_, _)
\* sep.join(parts)
Join(parts, sep) ==
    IF parts = << >> THEN << >>
    ELSE IF Len(parts) = 1 THEN parts[1]
    ELSE parts[1] \o sep \o Join(Tail(parts), sep)

RECURSIVE DigitsVal(_)
DigitsVal(d) ==
    IF d = << >> THEN 0
    ELSE 10 * DigitsVal(SubSeq(d, 1, Len(d) - 1)) + DigitVal(d[Len(d)])

AllDigits(d) == d # << >> /\ \A i \in 1..Len(d) : d[i] \in Digits

\* int(s): surrounding whitespace and a leading minus are accepted; anything
\* else raises ValueError (ok = FALSE)
ParseInt(s) ==
    LET t   == Strip(s)
        neg == t # << >> /\ t[1] = "-"
        d   == IF neg THEN Tail(t) ELSE t
    IN  IF AllDigits(d)
        THEN [ok |-> TRUE, val |-> IF neg THEN 0 - DigitsVal(d) ELSE DigitsVal(d)]
        ELSE [ok |-> FALSE, val |-> 0]

RECURSIVE NatToStr(_)
NatToStr(n) ==
    IF n < 10 THEN << CodePoints[Ord("0") + n] >>
    ELSE NatToStr(n \div 10) \o << CodePoints[Ord("0") + (n % 10)] >>

\* str(n) / f"{n}"
IntToStr(n) == IF n < 0 THEN << "-" >> \o NatToStr(0 - n) ELSE NatToStr(n)

\* s.removeprefix(p)
RemovePrefix(s, p) ==
    IF Len(s) >= Len(p) /\ SubSeq(s, 1, Len(p)) = p
    THEN SubSeq(s, Len(p) + 1, Len(s)) ELSE s

\* s.removesuffix(p)
RemoveSuffix(s, p) ==
    IF Len(s) >= Len(p) /\ SubSeq(s, Len(s) - Len(p) + 1, Len(s)) = p
    THEN SubSeq(s, 1, Len(s) - Len(p)) ELSE s

\* s.startswith(p)
StartsWith(s, p) == Len(s) >= Len(p) /\ SubSeq(s, 1, Len(p)) = p

(***************************************************************************)
(* The range sublanguage                                                   *)
(***************************************************************************)

\* A value or a raised ValueError.
Raise == [ok |-> FALSE, val |-> {}]
Ok(v) == [ok |-> TRUE, val |-> v]

\* One comma-separated part of parse_numeric_range: "a-b" gives
\* range(int(a), int(b) + 1), anything else int(part).
NumericPart(part) ==
    LET p == Strip(part)
    IN  IF HasChar(p, "-")
        THEN LET se    == SplitOnce(p, "-")
                 start == ParseInt(se[1])
                 end   == ParseInt(se[2])
             IN  IF start.ok /\ end.ok THEN Ok(start.val .. end.val) ELSE Raise
        ELSE LET n == ParseInt(p)
             IN  IF n.ok THEN Ok({n.val}) ELSE Raise

parse_numeric_range(s) ==
    LET parts == Split(s, ",")
        each  == [k \in 1..Len(parts) |-> NumericPart(parts[k])]
    IN  IF \A k \in 1..Len(parts) : each[k].ok
        THEN Ok(UNION {each[k].val : k \in 1..Len(parts)})
        ELSE Raise

\* int | None
None == [found |-> FALSE, val |-> 0]
Some(n) == [found |-> TRUE, val |-> n]

\* extract_section_number, were the prefix greedy (r".*(\d+)$"): the group
\* is left the last digit alone
extract_section_number_greedy(label) ==
    LET n    == Len(label)
        ends == {n} \cup (IF n > 0 /\ label[n] = "\n" THEN {n - 1} ELSE {})
        last == {e \in ends : e >= 1 /\ label[e] \in Digits
                                /\ \A j \in 1..(e - 1) : label[j] # "\n"}
    IN  IF last = {} THEN None ELSE Some(DigitVal(label[SetMax(last)]))

\* re.match(r".*?(\d+)$", label): the lazy prefix (no line break in it) is
\* the shortest one after which digits run to the end of the label, or to
\* the line break that ends it.
extract_section_number(label) ==
    LET n     == Len(label)
        ends  == {n} \cup (IF n > 0 /\ label[n] = "\n" THEN {n - 1} ELSE {})
        group(k) == {e \in ends : e >= k /\ AllDigits(SubSeq(label, k, e))}
        starts == {k \in 1..n :
                     /\ \A j \in 1..(k - 1) : label[j] # "\n"
                     /\ group(k) # {}}
    IN  IF starts = {} THEN None
        ELSE LET k == SetMin(starts)
             IN  Some(DigitsVal(SubSeq(label, k, SetMax(group(k)))))

(***************************************************************************)
(* Section Filter                                                          *)
(***************************************************************************)

\* A section is (label, text).
Section(label, text) == [label |-> label, text |-> text]

Kept(x) == x.keep

\* [f(x) for x in xs if keep(x)], from a sequence of [keep, sec] records
KeptSections(marked) ==
    LET k == SelectSeq(marked, Kept) IN [i \in 1..Len(k) |-> k[i].sec]

\* SelectLines, were the line numbers taken as list indices
SelectLinesFromZero(lines, wanted) ==
    LET js == Sorted({j \in wanted : 0 <= j /\ j < Len(lines)})
    IN  [k \in 1..Len(js) |-> lines[js[k] + 1]]

\* [lines[j - 1] for j in sorted(wanted) if 1 <= j <= len(lines)]
SelectLines(lines, wanted) ==
    LET js == Sorted({j \in wanted : 1 <= j /\ j <= Len(lines)})
    IN  [k \in 1..Len(js) |-> lines[js[k]]]

\* f"{label} {word} {lo}-{hi}"
Relabel(label, word, wanted) ==
    label \o << " " >> \o word \o << " " >>
          \o IntToStr(SetMin(wanted)) \o << "-" >> \o IntToStr(SetMax(wanted))

LINES == << "l", "i", "n", "e", "s" >>
ROWS  == << "r", "o", "w", "s" >>

\* the line branch once line_range is parsed (or has raised)
SelectByLines(sections, line_range) ==
    LET mark(sec) ==
            LET selected == SelectLines(Split(sec.text, "\n"), line_range.val)
            IN  IF selected # << >>
                THEN [keep |-> TRUE,
                      sec  |-> Section(Relabel(sec.label, LINES, line_range.val),
                                       Join(selected, << "\n" >>))]
                ELSE [keep |-> FALSE, sec |-> sec]
    IN  IF ~line_range.ok THEN Raise
        ELSE Ok(KeptSections([i \in 1..Len(sections) |-> mark(sections[i])]))

\* filter_sections, ext in (".docx", ".odt", ".rtf")
FilterLines(sections, range_str) ==
    SelectByLines(sections, parse_numeric_range(range_str))

\* The selector the sheet branch accumulates over the comma-separated parts.
NoSelector ==
    [ok |-> TRUE, names |-> {}, indices |-> {}, has_rows |-> FALSE, row_range |-> {}]

\* except ValueError, "-" in part: a range of indices, or else a name
SheetDashed(sel, part, asRange) ==
    IF asRange.ok THEN [sel EXCEPT !.indices = @ \cup asRange.val]
    ELSE [sel EXCEPT !.names = @ \cup {part}]

\* try: indices.add(int(part)), and the fallbacks
SheetToken(sel, part, asInt) ==
    IF asInt.ok THEN [sel EXCEPT !.indices = @ \cup {asInt.val}]
    ELSE IF ~HasChar(part, "-") THEN [sel EXCEPT !.names = @ \cup {part}]
    ELSE SheetDashed(sel, part, parse_numeric_range(part))

\* if ":" in part: row_range = parse_numeric_range(row_part); part = sheet_part
SheetRows(sel, sheet_part, rows) ==
    IF ~rows.ok THEN [sel EXCEPT !.ok = FALSE]
    ELSE SheetToken([sel EXCEPT !.has_rows = TRUE, !.row_range = rows.val],
                    sheet_part, ParseInt(sheet_part))

SheetSplit(sel, sp) == SheetRows(sel, sp[1], parse_numeric_range(sp[2]))

SheetStripped(sel, part) ==
    IF HasChar(part, ":") THEN SheetSplit(sel, SplitOnce(part, ":"))
    ELSE SheetToken(sel, part, ParseInt(part))

\* One iteration of the loop over range_str.split(",")
SheetPart(sel, raw) == SheetStripped(sel, StripChars(Strip(raw), {"'", "\""}))

RECURSIVE SheetParts(_, _)
SheetParts(sel, parts) ==
    IF parts = << >> \/ ~sel.ok THEN sel
    ELSE SheetParts(SheetPart(sel, parts[1]), Tail(parts))

SheetSelector(range_str) == SheetParts(NoSelector, Split(range_str, ","))

SHEET_PREFIX == << "s", "h", "e", "e", "t", " ", "'" >>

SheetName(label) == RemoveSuffix(RemovePrefix(label, SHEET_PREFIX), << "'" >>)

\* SheetSelected, were the sections counted from 0
SheetSelectedFromZero(sel, i, sec) ==
    (i - 1) \in sel.indices \/ SheetName(sec.label) \in sel.names

SheetSelected(sel, i, sec) == i \in sel.indices \/ SheetName(sec.label) \in sel.names

\* the loop of the sheet branch over the sections; min(row_range) raises
\* ValueError on an empty row range as soon as one sheet is selected
SelectSheets(sections, sel) ==
    LET mark(i) ==
            LET sec == sections[i]
            IN  IF ~SheetSelected(sel, i, sec) THEN [keep |-> FALSE, sec |-> sec]
                ELSE IF sel.has_rows
                THEN [keep |-> TRUE,
                      sec  |-> Section(Relabel(sec.label, ROWS, sel.row_range),
                                       Join(SelectLines(Split(sec.text, "\n"), sel.row_range),
                                            << "\n" >>))]
                ELSE [keep |-> TRUE, sec |-> sec]
    IN  IF ~sel.ok THEN Raise
        ELSE IF /\ sel.has_rows /\ sel.row_range = {}
                /\ \E i \in 1..Len(sections) : SheetSelected(sel, i, sections[i])
             THEN Raise
        ELSE Ok(KeptSections([i \in 1..Len(sections) |-> mark(i)]))

\* filter_sections, ext in (".xlsx", ".ods")
FilterSheets(sections, range_str) == SelectSheets(sections, SheetSelector(range_str))

\* the last branch once indices is parsed (or has raised)
SelectNumbered(sections, indices) ==
    LET mark(sec) ==
            LET number == extract_section_number(sec.label)
            IN  [keep |-> number.found /\ number.val \in indices.val, sec |-> sec]
    IN  IF ~indices.ok THEN Raise
        ELSE Ok(KeptSections([i \in 1..Len(sections) |-> mark(sections[i])]))

\* filter_sections, every other extension
FilterNumbered(sections, range_str) ==
    SelectNumbered(sections, parse_numeric_range(range_str))

EXT_PDF  == << ".", "p", "d", "f" >>
EXT_DOCX == << ".", "d", "o", "c", "x" >>
EXT_PPTX == << ".", "p", "p", "t", "x" >>
EXT_XLSX == << ".", "x", "l", "s", "x" >>
EXT_ODT  == << ".", "o", "d", "t" >>
EXT_ODS  == << ".", "o", "d", "s" >>
EXT_ODP  == << ".", "o", "d", "p" >>
EXT_RTF  == << ".", "r", "t", "f" >>
EXT_EPUB == << ".", "e", "p", "u", "b" >>

\* The warning is always None, so the model keeps the section list alone.
filter_sections(sections, range_str, ext) ==
    IF ext \in {EXT_DOCX, EXT_ODT, EXT_RTF} THEN FilterLines(sections, range_str)
    ELSE IF ext \in {EXT_XLSX, EXT_ODS} THEN FilterSheets(sections, range_str)
    ELSE FilterNumbered(sections, range_str)

(***************************************************************************)
(* Files and decoders                                                      *)
(***************************************************************************)

\* A path of the file system: its final component, what it is, and what its
\* decoder library finds in it. units are the pages, slides, sheets, spine
\* items or blocks of paragraphs in document order, each with the raw text
\* lines the library yields for it (a sheet's line is its row with the cells
\* already joined by tabs). fault is where decoding fails: "none", "open"
\* (the library's open/load call raises) or "read" (a later access raises).
File(name, kind, units, fault) ==
    [name |-> name, kind |-> kind, units |-> units, fault |-> fault]

Unit(name, lines) == [name |-> name, lines |-> lines]

\* PurePath.suffix
Suffix(name) ==
    LET dots == {i \in 1..Len(name) : name[i] = "."}
    IN  IF dots = {} THEN << >>
        ELSE LET i == SetMax(dots)
             IN  IF 1 < i /\ i < Len(name) THEN SubSeq(name, i, Len(name)) ELSE << >>

SUPPORTED_EXTENSIONS ==
    {EXT_PDF, EXT_DOCX, EXT_PPTX, EXT_XLSX, EXT_ODT, EXT_ODS, EXT_ODP, EXT_RTF, EXT_EPUB}

NonBlank(line) == Strip(line) # << >>

RECURSIVE Concat(_)
\* the lines of all units, in order
Concat(units) ==
    IF units = << >> THEN << >> ELSE units[1].lines \o Concat(Tail(units))

NL == << "\n" >>

\* f"{noun} {i}"
Numbered(noun, i) == noun \o << " " >> \o IntToStr(i)

PAGE     == << "p", "a", "g", "e" >>
SLIDE    == << "s", "l", "i", "d", "e" >>
CHAPTER  == << "c", "h", "a", "p", "t", "e", "r" >>
DOCUMENT == << "d", "o", "c", "u", "m", "e", "n", "t" >>

\* sections.append((label, text)) for every unit whose text is not empty
PerUnit(labels, texts) ==
    KeptSections([i \in 1..Len(texts) |->
        [keep |-> texts[i] # << >>, sec |-> Section(labels[i], texts[i])]])

\* one "document" section, if there is text
OneDocument(text) ==
    IF text # << >> THEN << Section(DOCUMENT, text) >> ELSE << >>

\* f"{noun} {i}" for enumerate(units, 1)
NumberedLabels(noun, units) == [i \in 1..Len(units) |-> Numbered(noun, i)]

\* f"sheet '{sheet_name}'" for every sheet
SheetLabels(units) ==
    [i \in 1..Len(units) |-> SHEET_PREFIX \o units[i].name \o << "'" >>]

\* "\n".join of the lines with text
NonBlankLines(lines) == Join(SelectSeq(lines, NonBlank), NL)

extract_pdf(f) ==
    PerUnit(NumberedLabels(PAGE, f.units),
            [i \in 1..Len(f.units) |-> Strip(Join(f.units[i].lines, NL))])

extract_docx(f) == OneDocument(NonBlankLines(Concat(f.units)))

extract_pptx(f) ==
    PerUnit(NumberedLabels(SLIDE, f.units),
            [i \in 1..Len(f.units) |-> NonBlankLines(f.units[i].lines)])

extract_xlsx(f) ==
    PerUnit(SheetLabels(f.units),
            [i \in 1..Len(f.units) |-> NonBlankLines(f.units[i].lines)])

extract_odt(f) == OneDocument(NonBlankLines(Concat(f.units)))

\* line = "\t".join(cells).rstrip("\t")
RStripTabs(lines) == [k \in 1..Len(lines) |-> RStripChars(lines[k], {"\t"})]

extract_ods(f) ==
    PerUnit(SheetLabels(f.units),
            [i \in 1..Len(f.units) |-> NonBlankLines(RStripTabs(f.units[i].lines))])

extract_odp(f) ==
    PerUnit(NumberedLabels(SLIDE, f.units),
            [i \in 1..Len(f.units) |-> NonBlankLines(f.units[i].lines)])

extract_rtf(f) == OneDocument(NonBlankLines(SplitLines(Join(Concat(f.units), NL))))

\* [l.strip() for l in text.splitlines()]
StripEach(lines) == [k \in 1..Len(lines) |-> Strip(lines[k])]

extract_epub(f) ==
    PerUnit(NumberedLabels(CHAPTER, f.units),
            [i \in 1..Len(f.units) |-> NonBlankLines(StripEach(f.units[i].lines))])

\* Whether the decoder of ext returns or raises with a handle of the file
\* still open. pymupdf.open and zipfile.ZipFile are entered with "with";
\* extract_xlsx calls wb.close() after the loops, so a failure inside them
\* skips it; the other decoders hold no handle once their load call is over.
LeavesOpen(ext, fault) == ext = EXT_XLSX /\ fault = "read"

\* extract_text: [ok, sections, leaked]
extract_text(f) ==
    LET ext == Lower(Suffix(f.name))
        sections ==
            CASE ext = EXT_PDF  -> extract_pdf(f)
              [] ext = EXT_DOCX -> extract_docx(f)
              [] ext = EXT_PPTX -> extract_pptx(f)
              [] ext = EXT_XLSX -> extract_xlsx(f)
              [] ext = EXT_ODT  -> extract_odt(f)
              [] ext = EXT_ODS  -> extract_ods(f)
              [] ext = EXT_ODP  -> extract_odp(f)
              [] ext = EXT_RTF  -> extract_rtf(f)
              [] ext = EXT_EPUB -> extract_epub(f)
    IN  IF ext \notin SUPPORTED_EXTENSIONS \/ f.fault # "none"
        THEN [ok |-> FALSE, sections |-> << >>, leaked |-> LeavesOpen(ext, f.fault)]
        ELSE [ok |-> TRUE, sections |-> sections, leaked |-> FALSE]

(***************************************************************************)
(* docread                                                                 *)
(***************************************************************************)

MAX_OUTPUT_CHARS == 40000

NO_TEXT ==
    << "N", "o", " ", "t", "e", "x", "t", " ", "c", "o", "n", "t", "e",
       "n", "t", " ", "f", "o", "u", "n", "d", "." >>

TRUNCATED_HEAD ==
    << "\n", "\n", ".", ".", ".", " ", "o", "u", "t", "p", "u", "t", " ",
       "t", "r", "u", "n", "c", "a", "t", "e", "d", " ", "a", "t", " " >>

TRUNCATED_TAIL ==
    << " ", "c", "h", "a", "r", "s", ".", " ", "U", "s", "e", " ", "r",
       "a", "n", "g", "e", " ", "t", "o", " ", "n", "a", "r", "r", "o",
       "w", " ", "r", "e", "s", "u", "l", "t", "s", "." >>

SECTION_MARK == << "=", "=", "=" >>

\* f"=== {label} ===\n{text}\n"
RenderSection(sec) ==
    SECTION_MARK \o << " " >> \o sec.label \o << " " >> \o SECTION_MARK
                 \o NL \o sec.text \o NL

\* Render, were the test "len(result) >= MAX_OUTPUT_CHARS"
RenderCutsAtCap(sections) ==
    LET result == Join([i \in 1..Len(sections) |-> RenderSection(sections[i])], NL)
    IN  IF Len(result) >= MAX_OUTPUT_CHARS
        THEN SubSeq(result, 1, MAX_OUTPUT_CHARS)
                 \o TRUNCATED_HEAD \o IntToStr(MAX_OUTPUT_CHARS) \o TRUNCATED_TAIL
        ELSE result

\* "\n".join(output), cut at MAX_OUTPUT_CHARS with the notice appended
Render(sections) ==
    LET result == Join([i \in 1..Len(sections) |-> RenderSection(sections[i])], NL)
    IN  IF Len(result) > MAX_OUTPUT_CHARS
        THEN SubSeq(result, 1, MAX_OUTPUT_CHARS)
                 \o TRUNCATED_HEAD \o IntToStr(MAX_OUTPUT_CHARS) \o TRUNCATED_TAIL
        ELSE result

\* range=None
NoRange == << "N", "o", "n", "e" >>

Returns(text) == [kind |-> "return", text |-> text]
Raises(exc)   == [kind |-> "raise", text |-> exc]

\* What a call of docread did: what it returns or raises, the sections it
\* extracted, the sections it rendered, and whether it left a handle open.
Outcome(out, sections, shown, leaked) ==
    [out |-> out, sections |-> sections, shown |-> shown, leaked |-> leaked]

\* docread from "if not sections" on
ReadFiltered(sections, filtered) ==
    IF ~filtered.ok THEN Outcome(Raises("ValueError"), sections, << >>, FALSE)
    ELSE IF filtered.val = << >>
    THEN Outcome(Returns(NO_TEXT), sections, << >>, FALSE)
    ELSE Outcome(Returns(Render(filtered.val)), sections, filtered.val, FALSE)

\* docread from "if range" on
ReadExtracted(extracted, range, ext) ==
    IF ~extracted.ok
    THEN Outcome(Raises("decoder error"), << >>, << >>, extracted.leaked)
    ELSE IF range # NoRange /\ range # << >>
    THEN ReadFiltered(extracted.sections,
                      filter_sections(extracted.sections, range, ext))
    ELSE ReadFiltered(extracted.sections, Ok(extracted.sections))

\* docread(filepath, range)
docread(f, range) ==
    IF f.kind # "file"
    THEN Outcome(Raises("File not found"), << >>, << >>, FALSE)
    ELSE IF Lower(Suffix(f.name)) \notin SUPPORTED_EXTENSIONS
    THEN Outcome(Raises("Unsupported file type"), << >>, << >>, FALSE)
    ELSE ReadExtracted(extract_text(f), range, Lower(Suffix(f.name)))

(***************************************************************************)
(* The documents read and searched                                         *)
(***************************************************************************)

\* r.pdf: ten pages, the third blank
REPORT_PDF ==
    File(<< "r", ".", "p", "d", "f" >>, "file",
         << Unit(<< >>, << << "a", "l", "p", "h", "a" >> >>),
            Unit(<< >>, << << "b", "e", "t", "a" >>, << >>, << "g", "a", "m", "m", "a", " " >> >>),
            Unit(<< >>, << << " " >> >>),
            Unit(<< >>, << << "d" >> >>),
            Unit(<< >>, << << "e" >> >>),
            Unit(<< >>, << << "f" >> >>),
            Unit(<< >>, << << "g" >> >>),
            Unit(<< >>, << << "h" >> >>),
            Unit(<< >>, << << "i" >> >>),
            Unit(<< >>, << << "t", "e", "n" >> >>) >>,
         "none")

\* n.docx: five paragraphs with text and a blank one
NOTES_DOCX ==
    File(<< "n", ".", "d", "o", "c", "x" >>, "file",
         << Unit(<< >>, << << "o", "n", "e" >>, << "t", "w", "o" >>, << " " >>, << "t", "e", "n" >>, << "s", "i", "x" >>, << "n", "i", "l" >> >>) >>,
         "none")

\* b.xlsx: sheets A, E (no values) and B
BOOK_XLSX ==
    File(<< "b", ".", "x", "l", "s", "x" >>, "file",
         << Unit(<< "A" >>, << << "a", "\t", "b" >>, << "c" >>, << "d" >> >>),
            Unit(<< "E" >>, << << "\t" >> >>),
            Unit(<< "B" >>, << << "1" >>, << "2" >>, << "3" >> >>) >>,
         "none")

\* s.ods: sheets B and A-B
SHEETS_ODS ==
    File(<< "s", ".", "o", "d", "s" >>, "file",
         << Unit(<< "B" >>, << << "x", "\t", "\t" >>, << "2" >> >>),
            Unit(<< "A", "-", "B" >>, << << "1" >> >>) >>,
         "none")

\* d.pptx: three slides, the second without text
DECK_PPTX ==
    File(<< "d", ".", "p", "p", "t", "x" >>, "file",
         << Unit(<< >>, << << "a" >>, << "b" >> >>),
            Unit(<< >>, <<  >>),
            Unit(<< >>, << << "c" >> >>) >>,
         "none")

DECK_ODP ==
    File(<< "p", ".", "o", "d", "p" >>, "file",
         << Unit(<< >>, << << "a" >> >>),
            Unit(<< >>, << << "b" >> >>) >>,
         "none")

BOOK_EPUB ==
    File(<< "e", ".", "e", "p", "u", "b" >>, "file",
         << Unit(<< >>, << << " ", "a", " " >>, << >> >>),
            Unit(<< >>, << << "b" >> >>) >>,
         "none")

TEXT_RTF ==
    File(<< "t", ".", "r", "t", "f" >>, "file",
         << Unit(<< >>, << << "a", "\n", "b" >>, << >>, << "c" >> >>) >>,
         "none")

TEXT_ODT ==
    File(<< "o", ".", "o", "d", "t" >>, "file",
         << Unit(<< >>, << << "a" >>, << "b" >> >>) >>,
         "none")

\* U.PDF: an upper-case extension
UPPER_PDF ==
    File(<< "U", ".", "P", "D", "F" >>, "file",
         << Unit(<< >>, << << "a" >> >>),
            Unit(<< >>, << << "b" >> >>) >>,
         "none")

\* m.pdf: no text at all
EMPTY_PDF ==
    File(<< "m", ".", "p", "d", "f" >>, "file",
         << Unit(<< >>, << << " " >> >>) >>,
         "none")

\* n.txt: not a supported type
NOTE_TXT ==
    File(<< "n", ".", "t", "x", "t" >>, "file",
         << Unit(<< >>, << << "a" >> >>) >>,
         "none")

\* x.pdf: a directory
DIR_PDF ==
    File(<< "x", ".", "p", "d", "f" >>, "dir",
         <<  >>,
         "none")

\* w.pdf: no such path
MISSING ==
    File(<< "w", ".", "p", "d", "f" >>, "missing",
         <<  >>,
         "none")

\* c.xlsx: a sheet fails to parse while its rows are read
CORRUPT_XLSX ==
    File(<< "c", ".", "x", "l", "s", "x" >>, "file",
         << Unit(<< "A" >>, << << "a" >> >>) >>,
         "read")

\* l.xlsx: load_workbook fails
LOCKED_XLSX ==
    File(<< "l", ".", "x", "l", "s", "x" >>, "file",
         << Unit(<< "A" >>, << << "a" >> >>) >>,
         "open")

\* c.pdf: a page fails to decode
CORRUPT_PDF ==
    File(<< "c", ".", "p", "d", "f" >>, "file",
         << Unit(<< >>, << << "a" >> >>) >>,
         "read")

\* How far around MAX_OUTPUT_CHARS the lengths of the long documents go.
CapSlack == 1

Filler(n) == SubSeq([i \in 1..n |-> "x"], 1, n)

\* A one-page pdf that renders ("=== page 1 ===", the text and two line
\* breaks) to MAX_OUTPUT_CHARS + d characters.
LongPdf(d) ==
    File(<< "g", ".", "p", "d", "f" >>, "file",
         << Unit(<< >>, << Filler(MAX_OUTPUT_CHARS + d - 16) >>) >>, "none")

\* A docx of two paragraphs that renders over the cap as a whole and under
\* it when only the first line is asked for.
LONG_DOCX ==
    File(<< "h", ".", "d", "o", "c", "x" >>, "file",
         << Unit(<< >>, << Filler(MAX_OUTPUT_CHARS - 30), Filler(20) >>) >>, "none")

ReadFiles ==
    {REPORT_PDF, NOTES_DOCX, BOOK_XLSX, SHEETS_ODS, DECK_PPTX,
     DECK_ODP, BOOK_EPUB, TEXT_RTF, TEXT_ODT, UPPER_PDF,
     EMPTY_PDF, NOTE_TXT, DIR_PDF, MISSING, CORRUPT_XLSX,
     LOCKED_XLSX, CORRUPT_PDF}

LongFiles == {LONG_DOCX} \cup {LongPdf(d) : d \in (0 - CapSlack)..CapSlack}

\* The parts range texts are made of, and how many a text has at most.
RangeTokens ==
    {<< "1" >>,
     << "2" >>,
     << "1", "0" >>,
     << "B" >>,
     << "'", "A", "'" >>,
     << "2", "-", "4" >>,
     << "4", "-", "2" >>,
     << "B", ":", "1", "-", "2" >>,
     << "A", ":", "5", "-", "6" >>,
     << "A", "-", "B" >>,
     << >>,
     << " ", "3" >>}

MaxTokens == 2

RECURSIVE TokenLists(_)
TokenLists(n) ==
    IF n = 0 THEN {<< >>}
    ELSE LET shorter == TokenLists(n - 1)
         IN  shorter \cup {<< t >> \o l : t \in RangeTokens, l \in {x \in shorter : Len(x) = n - 1}}

RangeTexts ==
    {Join(l, << "," >>) : l \in TokenLists(MaxTokens) \ {<< >>}} \cup {NoRange}

\* The calls of docread: any file with any range text; the long documents
\* are read whole or with a range of one part.
ReadCalls ==
    (ReadFiles \X RangeTexts) \cup (LongFiles \X (RangeTokens \cup {NoRange}))

(***************************************************************************)
(* docgrep                                                                 *)
(***************************************************************************)

\* An entry of the searched directory: its path relative to the directory,
\* component by component, and what is there.
Entry(parts, file) == [parts |-> parts, file |-> file]

\* a.pdf: three lines with "foo" on two pages
E_A_PDF ==
    Entry(<< << "a", ".", "p", "d", "f" >> >>,
          File(<< "a", ".", "p", "d", "f" >>, "file", << Unit(<< >>, << << "f", "o", "o" >>, << "b", "a", "r", " ", "F", "o", "o", " " >> >>), Unit(<< >>, << << "x", " ", "f", "o", "o" >> >>) >>, "none"))

\* b.xlsx: corrupt, fails while its rows are read
E_B_XLSX ==
    Entry(<< << "b", ".", "x", "l", "s", "x" >> >>,
          File(<< "b", ".", "x", "l", "s", "x" >>, "file", << Unit(<< "A" >>, << << "f", "o", "o" >> >>) >>, "read"))

\* c.pdf: corrupt, a page fails to decode
E_C_PDF ==
    Entry(<< << "c", ".", "p", "d", "f" >> >>,
          File(<< "c", ".", "p", "d", "f" >>, "file", << Unit(<< >>, << << "f", "o", "o" >> >>) >>, "read"))

\* .h: a hidden directory
E_HID ==
    Entry(<< << ".", "h" >> >>,
          File(<< ".", "h" >>, "dir", <<  >>, "none"))

\* .h/c.pdf: a document in the hidden directory
E_HID_PDF ==
    Entry(<< << ".", "h" >>, << "c", ".", "p", "d", "f" >> >>,
          File(<< "c", ".", "p", "d", "f" >>, "file", << Unit(<< >>, << << "f", "o", "o" >> >>) >>, "none"))

\* d: a directory
E_D ==
    Entry(<< << "d" >> >>,
          File(<< "d" >>, "dir", <<  >>, "none"))

\* d/.e.pdf: a hidden document
E_D_HID ==
    Entry(<< << "d" >>, << ".", "e", ".", "p", "d", "f" >> >>,
          File(<< ".", "e", ".", "p", "d", "f" >>, "file", << Unit(<< >>, << << "f", "o", "o" >> >>) >>, "none"))

\* d/f.docx: two lines with "foo" and one with "b"
E_D_DOCX ==
    Entry(<< << "d" >>, << "f", ".", "d", "o", "c", "x" >> >>,
          File(<< "f", ".", "d", "o", "c", "x" >>, "file", << Unit(<< >>, << << "x", " ", "b" >>, << " ", "f", "o", "o", " " >>, << "f", "o", "o" >> >>) >>, "none"))

\* U.PDF: an upper-case extension
E_UPPER ==
    Entry(<< << "U", ".", "P", "D", "F" >> >>,
          File(<< "U", ".", "P", "D", "F" >>, "file", << Unit(<< >>, << << "f", "o", "o", " ", "b" >> >>) >>, "none"))

GrepEntries ==
    {E_A_PDF, E_B_XLSX, E_C_PDF, E_HID, E_HID_PDF,
     E_D, E_D_HID, E_D_DOCX, E_UPPER}

\* The directory trees: every entry comes with the directories above it.
Trees ==
    {t \in SUBSET GrepEntries :
        \A e \in t : Len(e.parts) > 1 =>
            \E d \in t : d.file.kind = "dir" /\ d.parts = SubSeq(e.parts, 1, Len(e.parts) - 1)}

\* directory is not a directory
NotADirectory == {Entry(<< >>, File(<< >>, "missing", << >>, "none"))}

\* The first place where two sequences differ (one past the shorter one
\* when it is a prefix of the other).
FirstDifference(a, b) ==
    LET short == IF Len(a) <= Len(b) THEN Len(a) ELSE Len(b)
    IN  CHOOSE i \in 1..(short + 1) :
            /\ i = short + 1 \/ a[i] # b[i]
            /\ \A j \in 1..(i - 1) : a[j] = b[j]

\* str < str, by code points; a proper prefix comes first
StrLess(a, b) ==
    LET k == FirstDifference(a, b)
    IN  IF k > Len(a) \/ k > Len(b) THEN Len(a) < Len(b) ELSE Ord(a[k]) < Ord(b[k])

\* Path < Path: the lists of components compare
PathLess(p, q) ==
    LET k == FirstDifference(p, q)
    IN  IF k > Len(p) \/ k > Len(q) THEN Len(p) < Len(q) ELSE StrLess(p[k], q[k])

\* root.rglob("*"): the entries with their full paths
RGlob(root, tree) == {[path |-> root \o e.parts, file |-> e.file] : e \in tree}

\* sorted(root.rglob("*"))
Walk(root, tree) ==
    LET found == RGlob(root, tree)
    IN  [k \in 1..Cardinality(found) |->
            CHOOSE e \in found :
                Cardinality({d \in found : PathLess(d.path, e.path)}) = k - 1]

\* filepath.relative_to(root).parts
RelativeTo(path, root) == SubSeq(path, Len(root) + 1, Len(path))

\* str(filepath.relative_to(root))
RelPath(parts) == Join(parts, << "/" >>)

\* Hidden, were only the file's own name tested
HiddenNameOnly(path, root) == StartsWith(path[Len(path)], << "." >>)

\* any(part.startswith(".") for part in filepath.relative_to(root).parts)
Hidden(path, root) ==
    LET parts == RelativeTo(path, root)
    IN  \E k \in 1..Len(parts) : StartsWith(parts[k], << "." >>)

\* file_types=None
AllTypes == << << "N", "o", "n", "e" >> >>

\* allowed_exts
AllowedExts(file_types) ==
    IF file_types = AllTypes \/ file_types = << >> THEN SUPPORTED_EXTENSIONS
    ELSE {IF StartsWith(file_types[k], << "." >>) THEN file_types[k]
          ELSE << "." >> \o file_types[k] : k \in 1..Len(file_types)}
             \cap SUPPORTED_EXTENSIONS

\* sub in s
Contains(s, sub) ==
    \E i \in 1..(Len(s) - Len(sub) + 1) : SubSeq(s, i, i + Len(sub) - 1) = sub

\* The patterns of the model are words without regex syntax, and "(",
\* which re.compile rejects.
PatternCompiles(pattern) == ~HasChar(pattern, "(")

\* regex.search(line)
Search(pattern, case_sensitive, line) ==
    IF case_sensitive THEN Contains(line, pattern)
    ELSE Contains(Lower(line), Lower(pattern))

ERROR == << "e", "r", "r", "o", "r" >>

\* str(e) of a decoder's exception
DecoderMessage == << "b", "a", "d" >>

\* One entry of results: the line of text the code appends, and with it
\* the path it is about and whether it is a match or an error.
Result(parts, kind, middle, tail) ==
    [path |-> parts, kind |-> kind,
     line |-> RelPath(parts) \o << ":" >> \o middle \o << ":" >> \o tail]

\* What a scan has done so far: results, and the lines handed to the
\* regex, each with the number of results there were at that moment.
Scan(results, scanned) == [results |-> results, scanned |-> scanned]

Scanned(parts, label, line, count) ==
    [path |-> parts, label |-> label, line |-> line, count |-> count]

Extracted(parts, count) == [path |-> parts, count |-> count]

RECURSIVE ScanLines(_, _, _, _, _, _)
\* for line in text.splitlines()
ScanLines(acc, lines, parts, label, grep, max_results) ==
    IF lines = << >> \/ Len(acc.results) >= max_results THEN acc
    ELSE LET line == lines[1]
             hit  == Search(grep.pattern, grep.case_sensitive, line)
             next == Scan(IF hit
                          THEN Append(acc.results, Result(parts, "match", label, Strip(line)))
                          ELSE acc.results,
                          Append(acc.scanned,
                                 Scanned(parts, label, line, Len(acc.results))))
         IN  ScanLines(next, Tail(lines), parts, label, grep, max_results)

RECURSIVE ScanSections(_, _, _, _, _)
\* for section_label, text in sections
ScanSections(acc, sections, parts, grep, max_results) ==
    IF sections = << >> \/ Len(acc.results) >= max_results THEN acc
    ELSE ScanSections(
             ScanLines(acc, SplitLines(sections[1].text), parts, sections[1].label,
                       grep, max_results),
             Tail(sections), parts, grep, max_results)

NO_MATCHES ==
    << "N", "o", " ", "m", "a", "t", "c", "h", "e", "s", " ", "f", "o", "u", "n", "d", "." >>

\* The result counts the callers ask for go from 0 to MaxResults.
MaxResults == 3

Patterns == {<< "f", "o", "o" >>, << "b" >>, << "(" >>}

FileTypes ==
    {AllTypes,
     << << "p", "d", "f" >> >>,
     << << ".", "x", "l", "s", "x" >>, << "d", "o", "c", "x" >>, << "t", "x", "t" >> >>}

\* The searched directory, resolved: /opt/docs or /opt/.s
Roots ==
    {<< << "o", "p", "t" >>, << "d", "o", "c", "s" >> >>,
     << << "o", "p", "t" >>, << ".", "s" >> >>}

(***************************************************************************)
(* State                                                                   *)
(***************************************************************************)

VARIABLES
    rd_pc,        \* docread: "call" before the call, "done" after it
    rd_file,      \* docread: the file at filepath
    rd_range,     \* docread: the range argument
    rd,           \* docread: the outcome of the call
    g_pc,         \* docgrep: "start", "walk", "return", "done" or "raised"
    g_tree,       \* docgrep: the entries below directory
    g_args,       \* docgrep: directory, pattern, case_sensitive, file_types, max_results
    g_walk,       \* docgrep: sorted(root.rglob("*"))
    g_i,          \* docgrep: the position of the walk in g_walk
    g_results,    \* docgrep: results
    g_extracted,  \* the calls of extract_text, in order
    g_scanned,    \* the calls of regex.search, in order
    g_open,       \* the paths with a file handle still open
    g_out         \* docgrep: the returned text

rd_vars == << rd_pc, rd_file, rd_range, rd >>

g_vars == << g_pc, g_tree, g_args, g_walk, g_i, g_results, g_extracted, g_scanned,
             g_open, g_out >>

vars == << rd_pc, rd_file, rd_range, rd, g_pc, g_tree, g_args, g_walk, g_i,
           g_results, g_extracted, g_scanned, g_open, g_out >>

NotCalled == Outcome(Raises("not called"), << >>, << >>, FALSE)

\* A caller is about to read some file with some range.
ReadInit ==
    /\ rd_pc = "call"
    /\ \E call \in ReadCalls : rd_file = call[1] /\ rd_range = call[2]
    /\ rd = NotCalled

\* No docread call is made.
ReadIdle ==
    /\ rd_pc = "idle"
    /\ rd_file = MISSING
    /\ rd_range = NoRange
    /\ rd = NotCalled

GrepArgs(directory, pattern, case_sensitive, file_types, max_results) ==
    [directory |-> directory, pattern |-> pattern, case_sensitive |-> case_sensitive,
     file_types |-> file_types, max_results |-> max_results]

GrepLocals ==
    /\ g_walk = << >>
    /\ g_i = 1
    /\ g_results = << >>
    /\ g_extracted = << >>
    /\ g_scanned = << >>
    /\ g_open = {}
    /\ g_out = << >>

\* A caller is about to search some directory.
GrepInit ==
    /\ g_pc = "start"
    /\ g_tree \in Trees \cup {NotADirectory}
    /\ g_args \in {GrepArgs(d, p, c, t, m) :
                       d \in Roots, p \in Patterns, c \in BOOLEAN, t \in FileTypes,
                       m \in 0..MaxResults}
    /\ GrepLocals

\* No docgrep call is made.
GrepIdle ==
    /\ g_pc = "idle"
    /\ g_tree = {}
    /\ g_args = GrepArgs(<< >>, << >>, FALSE, AllTypes, 0)
    /\ GrepLocals

\* The call of docread.
DocRead ==
    /\ rd_pc = "call"
    /\ rd_pc' = "done"
    /\ rd' = docread(rd_file, rd_range)
    /\ UNCHANGED << rd_file, rd_range >>
    /\ UNCHANGED g_vars

\* docgrep up to the loop: the checks of directory and pattern, and the
\* sorted listing.
GrepStart ==
    /\ g_pc = "start"
    /\ IF g_tree = NotADirectory \/ ~PatternCompiles(g_args.pattern)
       THEN g_pc' = "raised" /\ UNCHANGED g_walk
       ELSE g_pc' = "walk" /\ g_walk' = Walk(g_args.directory, g_tree)
    /\ UNCHANGED << g_tree, g_args, g_i, g_results, g_extracted, g_scanned, g_open, g_out >>
    /\ UNCHANGED rd_vars

\* The entry the loop is at, and its path relative to the directory.
Current == g_walk[g_i]

Rel == RelativeTo(Current.path, g_args.directory)

\* CapReached, were the test "len(results) > max_results"
CapReachedLate == Len(g_results) > g_args.max_results

CapReached == Len(g_results) >= g_args.max_results

\* The three tests that skip an entry.
Skipped(e) ==
    \/ e.file.kind # "file"
    \/ Lower(Suffix(e.file.name)) \notin AllowedExts(g_args.file_types)
    \/ Hidden(e.path, g_args.directory)

\* The listing is exhausted.
GrepExhausted ==
    /\ g_pc = "walk"
    /\ g_i > Len(g_walk)
    /\ g_pc' = "return"
    /\ UNCHANGED << g_tree, g_args, g_walk, g_i, g_results, g_extracted, g_scanned,
                    g_open, g_out >>
    /\ UNCHANGED rd_vars

\* if len(results) >= max_results: break
GrepBreak ==
    /\ g_pc = "walk"
    /\ g_i <= Len(g_walk)
    /\ CapReached
    /\ g_pc' = "return"
    /\ UNCHANGED << g_tree, g_args, g_walk, g_i, g_results, g_extracted, g_scanned,
                    g_open, g_out >>
    /\ UNCHANGED rd_vars

\* continue: not a file, not an allowed type, or hidden
GrepSkip ==
    /\ g_pc = "walk"
    /\ g_i <= Len(g_walk)
    /\ ~CapReached
    /\ Skipped(Current)
    /\ g_i' = g_i + 1
    /\ UNCHANGED << g_pc, g_tree, g_args, g_walk, g_results, g_extracted, g_scanned,
                    g_open, g_out >>
    /\ UNCHANGED rd_vars

\* GrepFail, were the except clause to end the loop
GrepFailAborts ==
    /\ g_pc = "walk"
    /\ g_i <= Len(g_walk)
    /\ ~CapReached
    /\ ~Skipped(Current)
    /\ LET got == extract_text(Current.file)
       IN  /\ ~got.ok
           /\ g_results' = Append(g_results,
                                   Result(Rel, "error", ERROR, DecoderMessage))
           /\ g_open' = IF got.leaked THEN g_open \cup {Rel} ELSE g_open
    /\ g_extracted' = Append(g_extracted, Extracted(Rel, Len(g_results)))
    /\ g_pc' = "return"
    /\ UNCHANGED << g_tree, g_args, g_walk, g_i, g_scanned, g_out >>
    /\ UNCHANGED rd_vars

\* extract_text raises: one error line, and on to the next entry
GrepFail ==
    /\ g_pc = "walk"
    /\ g_i <= Len(g_walk)
    /\ ~CapReached
    /\ ~Skipped(Current)
    /\ LET got == extract_text(Current.file)
       IN  /\ ~got.ok
           /\ g_results' = Append(g_results,
                                   Result(Rel, "error", ERROR, DecoderMessage))
           /\ g_open' = IF got.leaked THEN g_open \cup {Rel} ELSE g_open
    /\ g_extracted' = Append(g_extracted, Extracted(Rel, Len(g_results)))
    /\ g_i' = g_i + 1
    /\ UNCHANGED << g_pc, g_tree, g_args, g_walk, g_scanned, g_out >>
    /\ UNCHANGED rd_vars

\* extract_text returns: the sections are scanned line by line
GrepScan ==
    /\ g_pc = "walk"
    /\ g_i <= Len(g_walk)
    /\ ~CapReached
    /\ ~Skipped(Current)
    /\ LET got == extract_text(Current.file)
           acc == ScanSections(Scan(g_results, g_scanned), got.sections, Rel,
                               g_args, g_args.max_results)
       IN  /\ got.ok
           /\ g_results' = acc.results
           /\ g_scanned' = acc.scanned
    /\ g_extracted' = Append(g_extracted, Extracted(Rel, Len(g_results)))
    /\ g_i' = g_i + 1
    /\ UNCHANGED << g_pc, g_tree, g_args, g_walk, g_open, g_out >>
    /\ UNCHANGED rd_vars

\* The sentinel, or the results joined by line breaks.
GrepReturn ==
    /\ g_pc = "return"
    /\ g_pc' = "done"
    /\ g_out' = IF g_results = << >> THEN NO_MATCHES
                ELSE Join([k \in 1..Len(g_results) |-> g_results[k].line], NL)
    /\ UNCHANGED << g_tree, g_args, g_walk, g_i, g_results, g_extracted, g_scanned,
                    g_open >>
    /\ UNCHANGED rd_vars

(***************************************************************************)
(* Properties of docgrep                                                   *)
(***************************************************************************)

\* The paths, relative to the directory, that extract_text was called on.
ExtractedPaths == {g_extracted[k].path : k \in 1..Len(g_extracted)}

\* Some component of a relative path starts with "."
HasDotComponent(parts) ==
    \E k \in 1..Len(parts) : parts[k] # << >> /\ parts[k][1] = "."

\* A regular file of an allowed type with no hidden component below the
\* directory: the files a search is to look into.
Searchable(e) ==
    /\ e.file.kind = "file"
    /\ Lower(Suffix(e.file.name)) \in AllowedExts(g_args.file_types)
    /\ ~HasDotComponent(e.parts)

\* The positions of the lines of a list of sections: (section, line).
LinePositions(sections) ==
    UNION {{<< i, j >> : j \in 1..Len(SplitLines(sections[i].text))} :
               i \in 1..Len(sections)}

MatchPositions(sections) ==
    {p \in LinePositions(sections) :
        Search(g_args.pattern, g_args.case_sensitive,
               SplitLines(sections[p[1]].text)[p[2]])}

\* How many entries of a sequence of records are about a path.
CountFor(seq, parts) == Cardinality({k \in 1..Len(seq) : seq[k].path = parts})

\* C1: results never holds more than max_results entries, no file is
\* extracted and no line is tried once the count has reached max_results,
\* and when the loop has ended the entries from the current position on
\* have not been extracted.
C1_ResultCap ==
    /\ Len(g_results) <= g_args.max_results
    /\ \A k \in 1..Len(g_extracted) : g_extracted[k].count < g_args.max_results
    /\ \A k \in 1..Len(g_scanned) : g_scanned[k].count < g_args.max_results
    /\ g_pc \in {"return", "done"} =>
           \A k \in g_i..Len(g_walk) :
               RelativeTo(g_walk[k].path, g_args.directory) \notin ExtractedPaths

\* C1 witness: a search ended by the cap in the middle of a.pdf (one of
\* its three lines tried), with d/f.docx still to come and never opened.
C1_Witness ==
    /\ g_pc = "done"
    /\ g_args.max_results >= 1
    /\ Len(g_results) = g_args.max_results
    /\ E_A_PDF \in g_tree /\ E_D_DOCX \in g_tree
    /\ CountFor(g_scanned, E_A_PDF.parts) = 1
    /\ Searchable(E_D_DOCX)
    /\ E_D_DOCX.parts \notin ExtractedPaths

\* C2: when a search ends below the cap, every searchable file was
\* extracted exactly once, in sorted order; a file whose extraction failed
\* contributes exactly the line path:error:message and no tried line, and
\* every other file had all its lines tried and contributes one match per
\* matching line.
C2_FailureIsolated ==
    (g_pc = "done" /\ Len(g_results) < g_args.max_results) =>
        /\ \A e \in g_tree : Searchable(e) =>
               LET got  == extract_text(e.file)
                   mine == {k \in 1..Len(g_results) : g_results[k].path = e.parts}
               IN  /\ CountFor(g_extracted, e.parts) = 1
                   /\ IF ~got.ok
                      THEN /\ Cardinality(mine) = 1
                           /\ \A k \in mine :
                                  /\ g_results[k].kind = "error"
                                  /\ g_results[k].line =
                                         Join(e.parts, << "/" >>)
                                             \o << ":", "e", "r", "r", "o", "r", ":" >>
                                             \o DecoderMessage
                           /\ CountFor(g_scanned, e.parts) = 0
                      ELSE /\ \A k \in mine : g_results[k].kind = "match"
                           /\ Cardinality(mine) = Cardinality(MatchPositions(got.sections))
                           /\ CountFor(g_scanned, e.parts)
                                  = Cardinality(LinePositions(got.sections))
        /\ \A k \in 1..Len(g_extracted) : \A l \in (k + 1)..Len(g_extracted) :
               PathLess(g_extracted[k].path, g_extracted[l].path)

\* C2 witness: a search that ended below the cap with an error line for
\* the corrupt b.xlsx followed by a match from a later file.
C2_Witness ==
    /\ g_pc = "done"
    /\ Len(g_results) < g_args.max_results
    /\ \E k \in 1..(Len(g_results) - 1) :
           /\ g_results[k].kind = "error"
           /\ g_results[k].path = E_B_XLSX.parts
           /\ g_results[k + 1].kind = "match"

\* C3: no extraction, tried line or result is about a path with a
\* component below the directory that starts with "."; and a search that
\* ends below the cap has extracted every searchable file, whatever the
\* directory's own path.
C3_HiddenNeverVisited ==
    /\ \A k \in 1..Len(g_extracted) : ~HasDotComponent(g_extracted[k].path)
    /\ \A k \in 1..Len(g_scanned) : ~HasDotComponent(g_scanned[k].path)
    /\ \A k \in 1..Len(g_results) : ~HasDotComponent(g_results[k].path)
    /\ (g_pc = "done" /\ Len(g_results) < g_args.max_results) =>
           \A e \in g_tree : Searchable(e) => e.parts \in ExtractedPaths

\* C3 witness: a finished search of a directory whose own path has a
\* hidden component, with matching documents in a hidden directory and
\* under a hidden name, and a match from a.pdf.
C3_Witness ==
    /\ g_pc = "done"
    /\ HasDotComponent(g_args.directory)
    /\ {E_HID_PDF, E_D_HID, E_A_PDF} \subseteq g_tree
    /\ Len(g_results) < g_args.max_results
    /\ \E k \in 1..Len(g_results) :
           g_results[k].path = E_A_PDF.parts /\ g_results[k].kind = "match"

\* C10: at every point of a search after the extraction of a file, that
\* file has no handle open any more, whether the extraction returned or
\* raised.
C10_HandlesReleased == g_open = {}

(***************************************************************************)
(* Properties of docread and of the section filter                         *)
(***************************************************************************)

\* The extension that decides the filter policy of the call.
ReadExt == Lower(Suffix(rd_file.name))

\* The call has returned text and a range was given.
Filtered == rd_pc = "done" /\ rd.out.kind = "return" /\ rd_range \notin {NoRange, << >>}

\* The sections as text: "=== label ===", a line break, the text, a line
\* break, and a blank line between sections.
Rendered(sections) ==
    Join([i \in 1..Len(sections) |->
             << "=", "=", "=", " " >> \o sections[i].label
                 \o << " ", "=", "=", "=", "\n" >> \o sections[i].text \o << "\n" >>],
         << "\n" >>)

TruncationNotice ==
    << "\n", "\n", ".", ".", ".", " ", "o", "u", "t", "p", "u", "t", " ",
       "t", "r", "u", "n", "c", "a", "t", "e", "d", " ", "a", "t", " ", "4",
       "0", "0", "0", "0", " ", "c", "h", "a", "r", "s", ".", " ", "U", "s",
       "e", " ", "r", "a", "n", "g", "e", " ", "t", "o", " ", "n", "a", "r",
       "r", "o", "w", " ", "r", "e", "s", "u", "l", "t", "s", "." >>

\* C4: the returned text is the rendered sections when they have at most
\* MAX_OUTPUT_CHARS characters, and otherwise their first MAX_OUTPUT_CHARS
\* characters followed by the notice.
C4_OutputCap ==
    (rd_pc = "done" /\ rd.out.kind = "return" /\ rd.shown # << >>) =>
        LET full == Rendered(rd.shown)
        IN  IF Len(full) > MAX_OUTPUT_CHARS
            THEN rd.out.text = SubSeq(full, 1, MAX_OUTPUT_CHARS) \o TruncationNotice
            ELSE rd.out.text = full

\* C4 witness: a call whose rendered sections are one character over the
\* cap and whose result is cut.
C4_Witness ==
    /\ rd_pc = "done" /\ rd.out.kind = "return"
    /\ Len(Rendered(rd.shown)) = MAX_OUTPUT_CHARS + 1
    /\ Len(rd.out.text) = MAX_OUTPUT_CHARS + Len(TruncationNotice)

\* lines[j] for the j of wanted that exist, in ascending order
LinesAt(lines, wanted) ==
    LET js == Sorted({j \in 1..Len(lines) : j \in wanted})
    IN  [m \in 1..Len(js) |-> lines[js[m]]]

\* " word lo-hi" with the least and greatest number asked for
Suffixed(word, wanted) ==
    << " " >> \o word \o << " " >> \o IntToStr(SetMin(wanted))
              \o << "-" >> \o IntToStr(SetMax(wanted))

\* C5: of a spreadsheet, the sections shown are those whose 1-based
\* position is in the parsed indices or whose sheet name is in the parsed
\* names, in order; with a row range every one of them is cut to the rows
\* of the range and relabeled, without one they are unchanged. For sheets
\* A and B: "B" gives B, "1" gives A, "B:1-2" gives the first two rows of B.
C5_SheetSelection ==
    /\ (Filtered /\ ReadExt \in {EXT_XLSX, EXT_ODS}) =>
           LET sel    == SheetSelector(rd_range)
               named(i) == \E n \in sel.names :
                               rd.sections[i].label
                                   = << "s", "h", "e", "e", "t", " ", "'" >> \o n \o << "'" >>
               chosen == Sorted({i \in 1..Len(rd.sections) : i \in sel.indices \/ named(i)})
           IN  /\ Len(rd.shown) = Len(chosen)
               /\ \A k \in 1..Len(chosen) :
                      LET sec == rd.sections[chosen[k]]
                      IN  IF sel.has_rows
                          THEN /\ rd.shown[k].label
                                      = sec.label \o Suffixed(<< "r", "o", "w", "s" >>, sel.row_range)
                               /\ rd.shown[k].text
                                      = Join(LinesAt(Split(sec.text, "\n"), sel.row_range),
                                             << "\n" >>)
                          ELSE rd.shown[k] = sec
    /\ (rd_pc = "done" /\ rd_file = BOOK_XLSX /\ rd_range = << "B" >>) =>
           rd.shown = << Section(<< "s", "h", "e", "e", "t", " ", "'", "B", "'" >>,
                                 << "1", "\n", "2", "\n", "3" >>) >>
    /\ (rd_pc = "done" /\ rd_file = BOOK_XLSX /\ rd_range = << "1" >>) =>
           rd.shown = << Section(<< "s", "h", "e", "e", "t", " ", "'", "A", "'" >>,
                                 << "a", "\t", "b", "\n", "c", "\n", "d" >>) >>
    /\ (rd_pc = "done" /\ rd_file = BOOK_XLSX /\ rd_range = << "B", ":", "1", "-", "2" >>) =>
           rd.shown = << Section(<< "s", "h", "e", "e", "t", " ", "'", "B", "'", " ", "r", "o", "w", "s", " ", "1", "-", "2" >>,
                                 << "1", "\n", "2" >>) >>

\* C5 witness: "B:1-2,1" read from the sheets A and B: both sheets are
\* shown, each cut to its first two rows.
C5_Witness ==
    /\ rd_pc = "done" /\ rd_file = BOOK_XLSX
    /\ rd_range = << "B", ":", "1", "-", "2", ",", "1" >>
    /\ Len(rd.shown) = 2
    /\ rd.shown[1].text = << "a", "\t", "b", "\n", "c" >>

\* C6: of a text document, each section is cut to the lines whose number
\* is asked for, in ascending order; a section left without a line is
\* dropped, the others are relabeled with the least and greatest number
\* asked for. "2-4" of five lines gives lines 2 to 4 as "document lines 2-4".
C6_LineSelection ==
    /\ (Filtered /\ ReadExt \in {EXT_DOCX, EXT_ODT, EXT_RTF}) =>
           LET want == parse_numeric_range(rd_range).val
               lines(i) == Split(rd.sections[i].text, "\n")
               kept == Sorted({i \in 1..Len(rd.sections) :
                                  \E j \in want : 1 <= j /\ j <= Len(lines(i))})
           IN  /\ Len(rd.shown) = Len(kept)
               /\ \A k \in 1..Len(kept) :
                      /\ rd.shown[k].label
                             = rd.sections[kept[k]].label
                                   \o Suffixed(<< "l", "i", "n", "e", "s" >>, want)
                      /\ Split(rd.shown[k].text, "\n") = LinesAt(lines(kept[k]), want)
    /\ (rd_pc = "done" /\ rd_file = NOTES_DOCX /\ rd_range = << "2", "-", "4" >>) =>
           rd.shown = << Section(<< "d", "o", "c", "u", "m", "e", "n", "t", " ", "l", "i", "n", "e", "s", " ", "2", "-", "4" >>,
                                 << "t", "w", "o", "\n", "t", "e", "n", "\n", "s", "i", "x" >>) >>
    /\ (rd_pc = "done" /\ rd_file = NOTES_DOCX /\ rd_range = << "2", "-", "4", ",", "1" >>) =>
           rd.shown = << Section(<< "d", "o", "c", "u", "m", "e", "n", "t", " ", "l", "i", "n", "e", "s", " ", "1", "-", "4" >>,
                                 << "o", "n", "e", "\n", "t", "w", "o", "\n", "t", "e", "n", "\n", "s", "i", "x" >>) >>

\* C6 witness: "10,2" read from the five lines of n.docx: line 2 alone is
\* shown, under the label of the range asked for.
C6_Witness ==
    /\ rd_pc = "done" /\ rd_file = NOTES_DOCX
    /\ rd_range = << "1", "0", ",", "2" >>
    /\ rd.shown = << Section(<< "d", "o", "c", "u", "m", "e", "n", "t", " ", "l", "i", "n", "e", "s", " ", "2", "-", "1", "0" >>, << "t", "w", "o" >>) >>

\* The number a label ends in: the value of its longest run of digits at
\* the end (none when the last character is no digit).
EndsInNumber(label) == label # << >> /\ label[Len(label)] \in Digits

TrailingNumber(label) ==
    LET k == CHOOSE i \in 1..Len(label) :
                 /\ \A j \in i..Len(label) : label[j] \in Digits
                 /\ (i = 1 \/ label[i - 1] \notin Digits)
    IN  DigitsVal(SubSeq(label, k, Len(label)))

\* C7: of a paged document, the sections shown are exactly those whose
\* label ends in a number that is asked for, unchanged and in order.
\* Of pages 1, 2, 4..10: "2,10" gives pages 2 and 10, "1" gives page 1.
C7_NumberedSelection ==
    /\ (Filtered /\ ReadExt \in {EXT_PDF, EXT_PPTX, EXT_ODP, EXT_EPUB}) =>
           LET want == parse_numeric_range(rd_range).val
               kept == Sorted({i \in 1..Len(rd.sections) :
                                  /\ EndsInNumber(rd.sections[i].label)
                                  /\ TrailingNumber(rd.sections[i].label) \in want})
           IN  rd.shown = [k \in 1..Len(kept) |-> rd.sections[kept[k]]]
    /\ (rd_pc = "done" /\ rd_file = REPORT_PDF /\ rd_range = << "2", ",", "1", "0" >>) =>
           [k \in 1..Len(rd.shown) |-> rd.shown[k].label]
               = << << "p", "a", "g", "e", " ", "2" >>,
                    << "p", "a", "g", "e", " ", "1", "0" >> >>
    /\ (rd_pc = "done" /\ rd_file = REPORT_PDF /\ rd_range = << "1" >>) =>
           [k \in 1..Len(rd.shown) |-> rd.shown[k].label]
               = << << "p", "a", "g", "e", " ", "1" >> >>

\* C7 witness: "2,10" read from r.pdf shows two pages, the second "ten".
C7_Witness ==
    /\ rd_pc = "done" /\ rd_file = REPORT_PDF
    /\ rd_range = << "2", ",", "1", "0" >>
    /\ Len(rd.shown) = 2
    /\ rd.shown[2].text = << "t", "e", "n" >>

\* C8: in a call that returns text, a range of one part "a-b" parses to
\* the numbers from the lesser to the greater of a and b, and the call
\* gives what it gives with the two bounds exchanged.
C8_ReversedRangeNormalised ==
    (/\ rd_pc = "done" /\ rd.out.kind = "return"
     /\ HasChar(rd_range, "-")
     /\ ~HasChar(rd_range, ",") /\ ~HasChar(rd_range, ":")
     /\ ParseInt(SplitOnce(rd_range, "-")[1]).ok
     /\ ParseInt(SplitOnce(rd_range, "-")[2]).ok) =>
        LET a  == ParseInt(SplitOnce(rd_range, "-")[1]).val
            b  == ParseInt(SplitOnce(rd_range, "-")[2]).val
            lo == IF a <= b THEN a ELSE b
            hi == IF a <= b THEN b ELSE a
        IN  /\ parse_numeric_range(rd_range) = Ok(lo..hi)
            /\ rd.out = docread(rd_file, IntToStr(b) \o << "-" >> \o IntToStr(a)).out

\* C9: when no extracted section has empty text, no section shown has
\* empty text, and a call that shows no section returns the sentinel.
C9_NoEmptySectionText ==
    (/\ rd_pc = "done" /\ rd.out.kind = "return"
     /\ \A i \in 1..Len(rd.sections) : rd.sections[i].text # << >>) =>
        /\ \A k \in 1..Len(rd.shown) : rd.shown[k].text # << >>
        /\ rd.shown = << >> => rd.out.text = NO_TEXT

ReadNext == DocRead

GrepNext ==
    \/ GrepStart
    \/ GrepExhausted
    \/ GrepBreak
    \/ GrepSkip
    \/ GrepFail
    \/ GrepScan
    \/ GrepReturn

InitRead == ReadInit /\ GrepIdle

InitGrep == GrepInit /\ ReadIdle

SpecRead == InitRead /\ [][ReadNext]_vars

SpecGrep == InitGrep /\ [][GrepNext]_vars

====
